---- MODULE Spec2Model ----
(***************************************************************************)
(* FriendshipCollection (src/server/friendship/collection.ts): the six     *)
(* static async operations on the friendship collection of a document      *)
(* store, run by concurrent callers.  Every await of the source is a step  *)
(* of its own: other callers' steps may land between any two of them.      *)
(***************************************************************************)
EXTENDS Integers, Sequences, FiniteSets, TLC

\* Concurrent callers (route handlers awaiting the collection).
Procs == {"p1", "p2"}

\* The caller whose consecutive calls are followed: the call before its current one
\* is remembered.  The other caller is any concurrent request.
Observed == "p1"

\* The user collection, owned by the sibling User accessor and never written here.
Users == {[id |-> "u1", username |-> "alice"], [id |-> "u2", username |-> "bob"]}

UserIds == {u.id : u \in Users}

\* Usernames callers pass; "ghost" is no user's name.
Usernames == {"alice", "ghost"}

\* Friendship ids the store hands out are 1..MaxId; the clock reads 0..MaxTime;
\* a caller makes at most MaxCalls calls.
MaxId == 2

MaxTime == 1

MaxCalls == 2

FriendshipIds == 1..MaxId

\* JavaScript null.
Null == [type |-> "null"]

VARIABLES
  store,     \* the friendship collection: a set of friendship documents
  nextId,    \* the next fresh ObjectId
  now,       \* the latest reading of the clock new Date() reads
  calls,     \* per caller: the calls it has made
  pc,        \* per caller: where its current call stands
  op,        \* per caller: the operation it called last
  arg,       \* per caller: that call's argument(s)
  loc,       \* per caller: the call's local constants (friendship, user)
  ret,       \* per caller: what the call settled with
  prev,      \* summary of the call the observed caller made before its current one
  quiet,     \* per caller: no other caller changed the store since its latest store step
  atomic,    \* per caller: no other caller changed the store between the current call's store steps
  adjacent   \* no other caller changed the store between the latest store step of the
             \* observed caller's previous call and the first one of its current call

vars == <<store, nextId, now, calls, pc, op, arg, loc, ret, prev, quiet, atomic, adjacent>>

----------------------------------------------------------------------------
(* The store and the User accessor, as the calls of the source use them.   *)

\* UserCollection.findOneByUsername resolves a username.
Resolves(username) == \E u \in Users : u.username = username

findOneByUsername(username) == CHOOSE u \in Users : u.username = username

\* Mutant: the timestamp stored under the name findAll sorts by.
NewFriendshipDateFriendshiped(id, userOneId, userTwoId, dateCreated) ==
  [id |-> id, userOneId |-> userOneId, userTwoId |-> userTwoId, dateFriendshiped |-> dateCreated]

\* new FriendshipModel({userOneId, userTwoId, dateCreated}), the id assigned on construction.
NewFriendship(id, userOneId, userTwoId, dateCreated) ==
  [id |-> id, userOneId |-> userOneId, userTwoId |-> userTwoId, dateCreated |-> dateCreated]

\* Mutant: the insert skipped when the pair is already befriended, in either order.
saveUnique(S, friendship) ==
  IF \E r \in S : {r.userOneId, r.userTwoId} = {friendship.userOneId, friendship.userTwoId}
    THEN S
    ELSE S \cup {friendship}

\* friendship.save(): one insert, no uniqueness check.
save(S, friendship) == S \cup {friendship}

\* friendship.populate(['userOneId', 'userTwoId']): the references replaced by the users.
UserById(id) ==
  IF \E u \in Users : u.id = id THEN CHOOSE u \in Users : u.id = id ELSE Null

populate(friendship) ==
  [friendship EXCEPT !.userOneId = UserById(@), !.userTwoId = UserById(@)]

\* FriendshipModel.findOne({_id: friendshipId}): the document or null.
findOneById(S, friendshipId) ==
  IF \E r \in S : r.id = friendshipId
    THEN CHOOSE r \in S : r.id = friendshipId
    ELSE Null

\* The value a sort compares: the field, or null (below every date) when the
\* document has no such field.
SortKey(r, field) == IF field \in DOMAIN r THEN r[field] ELSE -1

\* The arrays a query hands back for the documents S it matched: each document once,
\* in an order the store picks.
Arrays(S) ==
  {s \in [1..Cardinality(S) -> S] : \A i, j \in 1..Cardinality(S) : i # j => s[i] # s[j]}

\* Every order of S that descends by `field`; ties are in the order the store picks.
SortDescending(S, field) ==
  {s \in Arrays(S) :
     \A i, j \in 1..Cardinality(S) : i < j => SortKey(s[i], field) >= SortKey(s[j], field)}

\* FriendshipModel.find({}).sort({dateFriendshiped: -1})
findAllSorted(S) == SortDescending(S, "dateFriendshiped")

\* Mutant: the $or without its second branch.
findOfUserOneOnly(S, userId) == {r \in S : r.userOneId = userId}

\* The documents FriendshipModel.find({$or: [{userOneId}, {userTwoId}]}) matches.
findOfUser(S, userId) == {r \in S : r.userOneId = userId \/ r.userTwoId = userId}

\* Mutant: a filter that matches no document.
deleteOneByIdNoMatch(S, friendshipId) == S

\* FriendshipModel.deleteOne({_id}): the store after, and the acknowledgment.
deleteOneById(S, friendshipId) == {r \in S : r.id # friendshipId}

DeleteResult(S, T) ==
  [type |-> "DeleteResult", acknowledged |-> TRUE, deletedCount |-> Cardinality(S \ T)]

\* Mutant: the result read from the acknowledgment's count.
deleteOneReturnCount(deletedFriendRequest) == deletedFriendRequest.deletedCount > 0

\* deletedFriendRequest !== null
deleteOneReturn(deletedFriendRequest) == deletedFriendRequest # Null

\* Mutant: one delete matching either party, as the first step.
deleteManyEitherFirst(S, userId) == {r \in S : r.userOneId # userId /\ r.userTwoId # userId}

\* FriendshipModel.deleteMany({userOneId: user._id})
deleteManyUserOne(S, userId) == {r \in S : r.userOneId # userId}

\* Mutant: the second delete repeats the first one's filter.
deleteManyUserTwoRepeatsOne(S, userId) == {r \in S : r.userOneId # userId}

\* Mutant: one delete matching either party, as the second step.
deleteManyEitherSecond(S, userId) == {r \in S : r.userOneId # userId /\ r.userTwoId # userId}

\* FriendshipModel.deleteMany({userTwoId: user._id})
deleteManyUserTwo(S, userId) == {r \in S : r.userTwoId # userId}

----------------------------------------------------------------------------
(* Calls.                                                                  *)

NoAux == [a |-> 0, b |-> 0]

NoRet == [kind |-> "none", val |-> 0, aux |-> NoAux]

NoPrev == [op |-> "none", arg |-> 0, kind |-> "none", aux |-> NoAux, atomic |-> TRUE]

UserIdOf(username) == findOneByUsername(username).id

Ready(p) == pc[p] \in {"idle", "done", "crashed"}

InFlight(p) == ~Ready(p)

\* What is kept of the call a caller made before the one it starts now.
Summary(p) ==
  [op |-> op[p], arg |-> arg[p], kind |-> ret[p].kind, aux |-> ret[p].aux,
   atomic |-> atomic[p]]

\* Caller p starts operation o with argument a, holding local l until its first await settles.
Call(p, o, a, l, first) ==
  /\ Ready(p)
  /\ calls[p] < MaxCalls
  /\ calls' = [calls EXCEPT ![p] = @ + 1]
  /\ pc' = [pc EXCEPT ![p] = first]
  /\ op' = [op EXCEPT ![p] = o]
  /\ arg' = [arg EXCEPT ![p] = a]
  /\ loc' = [loc EXCEPT ![p] = l]
  /\ ret' = [ret EXCEPT ![p] = NoRet]
  /\ prev' = IF p = Observed THEN Summary(p) ELSE prev
  /\ atomic' = [atomic EXCEPT ![p] = TRUE]
  /\ adjacent' = IF p = Observed THEN TRUE ELSE adjacent
  /\ UNCHANGED <<store, quiet>>

\* Caller p's step on the friendship collection, the first of its call or a later one.
StoreStep(p, first) ==
  /\ quiet' = [q \in Procs |-> IF q = p THEN TRUE ELSE quiet[q] /\ store' = store]
  /\ atomic' = [atomic EXCEPT ![p] = IF first THEN TRUE ELSE @ /\ quiet[p]]
  /\ adjacent' = IF first /\ p = Observed THEN quiet[p] ELSE adjacent

\* Caller p's call settles with r; its locals are gone.
Settle(p, r) ==
  /\ pc' = [pc EXCEPT ![p] = "done"]
  /\ ret' = [ret EXCEPT ![p] = r]
  /\ loc' = [loc EXCEPT ![p] = Null]

Init ==
  /\ store = {}
  /\ nextId = 1
  /\ now = 0
  /\ calls = [p \in Procs |-> 0]
  /\ pc = [p \in Procs |-> "idle"]
  /\ op = [p \in Procs |-> "none"]
  /\ arg = [p \in Procs |-> 0]
  /\ loc = [p \in Procs |-> Null]
  /\ ret = [p \in Procs |-> NoRet]
  /\ prev = NoPrev
  /\ quiet = [p \in Procs |-> TRUE]
  /\ atomic = [p \in Procs |-> TRUE]
  /\ adjacent = TRUE

\* addOne, lines 30-35: new Date() reads the clock, at or after its latest reading,
\* and the document is built with a fresh id.
AddOneCall(p, userOneId, userTwoId, dateCreated) ==
  /\ nextId <= MaxId
  /\ dateCreated >= now
  /\ Call(p, "addOne", <<userOneId, userTwoId>>,
          NewFriendship(nextId, userOneId, userTwoId, dateCreated), "add_save")
  /\ nextId' = nextId + 1
  /\ now' = dateCreated

\* addOne, line 36: await friendship.save()
AddOneSave(p) ==
  /\ pc[p] = "add_save"
  /\ store' = save(store, loc[p])
  /\ pc' = [pc EXCEPT ![p] = "add_populate"]
  /\ StoreStep(p, TRUE)
  /\ UNCHANGED <<nextId, now, calls, op, arg, loc, ret, prev>>

\* addOne, line 37: return friendship.populate(...)
AddOnePopulate(p) ==
  /\ pc[p] = "add_populate"
  /\ Settle(p, [kind |-> "doc", val |-> populate(loc[p]), aux |-> [a |-> loc[p].id, b |-> 0]])
  /\ UNCHANGED <<store, nextId, now, calls, op, arg, prev, quiet, atomic, adjacent>>

\* findOne, lines 46-48
FindOneCall(p, friendshipId) ==
  /\ Call(p, "findOne", friendshipId, Null, "findOne_query")
  /\ UNCHANGED <<nextId, now>>

\* findOne, line 49
FindOneQuery(p) ==
  /\ pc[p] = "findOne_query"
  /\ LET found == findOneById(store, arg[p])
     IN Settle(p, [kind |-> IF found = Null THEN "null" ELSE "doc", val |-> found, aux |-> NoAux])
  /\ store' = store
  /\ StoreStep(p, TRUE)
  /\ UNCHANGED <<nextId, now, calls, op, arg, prev>>

\* findAll, line 57
FindAllCall(p) ==
  /\ Call(p, "findAll", 0, Null, "findAll_query")
  /\ UNCHANGED <<nextId, now>>

\* findAll, line 58
FindAllQuery(p) ==
  /\ pc[p] = "findAll_query"
  /\ \E s \in findAllSorted(store) : Settle(p, [kind |-> "array", val |-> s, aux |-> NoAux])
  /\ store' = store
  /\ StoreStep(p, TRUE)
  /\ UNCHANGED <<nextId, now, calls, op, arg, prev>>

\* findAllFriendshipsOfUser, line 68
FindAllFriendshipsOfUserCall(p, username) ==
  /\ Call(p, "findAllFriendshipsOfUser", username, Null, "findOfUser_user")
  /\ UNCHANGED <<nextId, now>>

\* line 69, and line 72's user._id, which throws when the username resolved to no user
FindAllFriendshipsOfUserLookup(p) ==
  /\ pc[p] = "findOfUser_user"
  /\ IF Resolves(arg[p])
       THEN /\ loc' = [loc EXCEPT ![p] = findOneByUsername(arg[p])]
            /\ pc' = [pc EXCEPT ![p] = "findOfUser_find"]
            /\ ret' = ret
       ELSE Settle(p, [kind |-> "throw", val |-> 0, aux |-> NoAux])
  /\ UNCHANGED <<store, nextId, now, calls, op, arg, prev, quiet, atomic, adjacent>>

\* lines 70-77: the array of the matching documents; the find states no sort
FindAllFriendshipsOfUserFind(p) ==
  /\ pc[p] = "findOfUser_find"
  /\ \E s \in Arrays(findOfUser(store, loc[p].id)) :
       Settle(p, [kind |-> "array", val |-> s, aux |-> NoAux])
  /\ store' = store
  /\ StoreStep(p, TRUE)
  /\ UNCHANGED <<nextId, now, calls, op, arg, prev>>

\* deleteOne, lines 86-88
DeleteOneCall(p, friendshipId) ==
  /\ Call(p, "deleteOne", friendshipId, Null, "deleteOne_delete")
  /\ UNCHANGED <<nextId, now>>

\* deleteOne, lines 89-90
DeleteOneDelete(p) ==
  /\ pc[p] = "deleteOne_delete"
  /\ store' = deleteOneById(store, arg[p])
  /\ LET deletedFriendRequest == DeleteResult(store, store')
     IN Settle(p, [kind |-> "boolean", val |-> deleteOneReturn(deletedFriendRequest),
                   aux |-> [a |-> deletedFriendRequest.deletedCount, b |-> 0]])
  /\ StoreStep(p, TRUE)
  /\ UNCHANGED <<nextId, now, calls, op, arg, prev>>

\* deleteAllFriendshipOfUser, lines 99-101
DeleteAllFriendshipOfUserCall(p, username) ==
  /\ Call(p, "deleteAllFriendshipOfUser", username, Null, "deleteAll_user")
  /\ UNCHANGED <<nextId, now>>

\* Mutant: user?._id, which lets a username that resolved to no user through to the deletes.
DeleteAllFriendshipOfUserLookupNoThrow(p) ==
  /\ pc[p] = "deleteAll_user"
  /\ loc' = [loc EXCEPT ![p] = IF Resolves(arg[p]) THEN findOneByUsername(arg[p])
                                                   ELSE [id |-> "undefined"]]
  /\ pc' = [pc EXCEPT ![p] = "deleteAll_one"]
  /\ UNCHANGED <<store, nextId, now, calls, op, arg, ret, prev, quiet, atomic, adjacent>>

\* line 102, and line 104's user._id, which throws when the username resolved to no user
DeleteAllFriendshipOfUserLookup(p) ==
  /\ pc[p] = "deleteAll_user"
  /\ IF Resolves(arg[p])
       THEN /\ loc' = [loc EXCEPT ![p] = findOneByUsername(arg[p])]
            /\ pc' = [pc EXCEPT ![p] = "deleteAll_one"]
            /\ ret' = ret
       ELSE Settle(p, [kind |-> "throw", val |-> 0, aux |-> NoAux])
  /\ UNCHANGED <<store, nextId, now, calls, op, arg, prev, quiet, atomic, adjacent>>

\* line 104; the acknowledgment's count is kept in aux.a
DeleteAllFriendshipOfUserOne(p) ==
  /\ pc[p] = "deleteAll_one"
  /\ store' = deleteManyUserOne(store, loc[p].id)
  /\ pc' = [pc EXCEPT ![p] = "deleteAll_two"]
  /\ ret' = [ret EXCEPT ![p].aux.a = DeleteResult(store, store').deletedCount]
  /\ StoreStep(p, TRUE)
  /\ UNCHANGED <<nextId, now, calls, op, arg, loc, prev>>

\* line 105 and the return; the acknowledgment's count is kept in aux.b
DeleteAllFriendshipOfUserTwo(p) ==
  /\ pc[p] = "deleteAll_two"
  /\ store' = deleteManyUserTwo(store, loc[p].id)
  /\ Settle(p, [kind |-> "void", val |-> 0,
                aux |-> [a |-> ret[p].aux.a, b |-> DeleteResult(store, store').deletedCount]])
  /\ StoreStep(p, FALSE)
  /\ UNCHANGED <<nextId, now, calls, op, arg, prev>>

\* The server process stops: every call in flight is abandoned where it stands,
\* and the store keeps what was written.
Crash ==
  /\ \E p \in Procs : InFlight(p)
  /\ pc' = [p \in Procs |-> IF InFlight(p) THEN "crashed" ELSE pc[p]]
  /\ ret' = [p \in Procs |-> IF InFlight(p)
                               THEN [kind |-> "crashed", val |-> pc[p], aux |-> ret[p].aux]
                               ELSE ret[p]]
  /\ loc' = [p \in Procs |-> IF InFlight(p) THEN Null ELSE loc[p]]
  /\ UNCHANGED <<store, nextId, now, calls, op, arg, prev, quiet, atomic, adjacent>>

Next ==
  \/ \E p \in Procs, u1, u2 \in UserIds, t \in 0..MaxTime : AddOneCall(p, u1, u2, t)
  \/ \E p \in Procs : AddOneSave(p)
  \/ \E p \in Procs : AddOnePopulate(p)
  \/ \E p \in Procs, id \in FriendshipIds : FindOneCall(p, id)
  \/ \E p \in Procs : FindOneQuery(p)
  \/ \E p \in Procs : FindAllCall(p)
  \/ \E p \in Procs : FindAllQuery(p)
  \/ \E p \in Procs, n \in Usernames : FindAllFriendshipsOfUserCall(p, n)
  \/ \E p \in Procs : FindAllFriendshipsOfUserLookup(p)
  \/ \E p \in Procs : FindAllFriendshipsOfUserFind(p)
  \/ \E p \in Procs, id \in FriendshipIds : DeleteOneCall(p, id)
  \/ \E p \in Procs : DeleteOneDelete(p)
  \/ \E p \in Procs, n \in Usernames : DeleteAllFriendshipOfUserCall(p, n)
  \/ \E p \in Procs : DeleteAllFriendshipOfUserLookup(p)
  \/ \E p \in Procs : DeleteAllFriendshipOfUserOne(p)
  \/ \E p \in Procs : DeleteAllFriendshipOfUserTwo(p)
  \/ Crash

Spec == Init /\ [][Next]_vars

----------------------------------------------------------------------------
(* Properties.                                                             *)

\* The observed caller's current call is o(a), settled, and its previous call was po.
Followed(po, o) ==
  /\ pc[Observed] = "done"
  /\ op[Observed] = o
  /\ prev.op = po

\* The elements of an array.
Elements(s) == {s[i] : i \in DOMAIN s}

\* C1: findAllFriendshipsOfUser(username) with a username that resolves to user u
\* returns an array, and as long as no other caller has changed the store since its
\* find, the array holds exactly the stored records whose userOneId or userTwoId is u.
C1_FindAllFriendshipsOfUserExact ==
  \A p \in Procs :
    (pc[p] = "done" /\ op[p] = "findAllFriendshipsOfUser" /\ Resolves(arg[p])) =>
      /\ ret[p].kind = "array"
      /\ quiet[p] =>
           /\ \A r \in store :
                (r.userOneId = UserIdOf(arg[p]) \/ r.userTwoId = UserIdOf(arg[p]))
                  => r \in Elements(ret[p].val)
           /\ \A r \in Elements(ret[p].val) :
                /\ r \in store
                /\ r.userOneId = UserIdOf(arg[p]) \/ r.userTwoId = UserIdOf(arg[p])
           /\ Len(ret[p].val) = Cardinality(Elements(ret[p].val))

\* A find that returned a record in which the user is only the second party, while
\* the store also holds a record in which the user is neither party.
C1_Witness ==
  \E p \in Procs :
    /\ pc[p] = "done" /\ op[p] = "findAllFriendshipsOfUser" /\ Resolves(arg[p])
    /\ quiet[p]
    /\ \E r \in Elements(ret[p].val) : r.userTwoId = UserIdOf(arg[p]) /\ r.userOneId # UserIdOf(arg[p])
    /\ \E r \in store : r.userOneId # UserIdOf(arg[p]) /\ r.userTwoId # UserIdOf(arg[p])

\* C2: when the observed caller's deleteAllFriendshipOfUser(username) has run to
\* completion and its next call is findAllFriendshipsOfUser(username), with no other
\* caller's change of the store landing from the first delete to the find, the find
\* returns the empty array.
C2_DeleteAllThenFindOfUserEmpty ==
  ( /\ Followed("deleteAllFriendshipOfUser", "findAllFriendshipsOfUser")
    /\ prev.kind = "void"
    /\ prev.arg = arg[Observed]
    /\ prev.atomic
    /\ adjacent )
  => (ret[Observed].kind = "array" /\ ret[Observed].val = <<>>)

\* Such a pair of calls, in which the delete removed records of both roles.
C2_Witness ==
  /\ Followed("deleteAllFriendshipOfUser", "findAllFriendshipsOfUser")
  /\ prev.kind = "void"
  /\ prev.arg = arg[Observed]
  /\ prev.atomic
  /\ adjacent
  /\ prev.aux.a >= 1
  /\ prev.aux.b >= 1
  /\ ret[Observed].kind = "array"

\* addOne's save adds exactly one record, under an id no stored record has.
C3_SaveInsertsOne ==
  \A p \in Procs :
    (pc[p] = "add_save" /\ pc'[p] = "add_populate") =>
      /\ store \subseteq store'
      /\ Cardinality(store') = Cardinality(store) + 1
      /\ \A r \in store' \ store : r.id = loc[p].id /\ \A q \in store : q.id # r.id

\* findOne on the id addOne returned, no other caller's change of the store landing
\* between the save and the find, returns that record.
C3_FindOneAfterAddOne ==
  ( /\ Followed("addOne", "findOne")
    /\ prev.kind = "doc"
    /\ prev.aux.a = arg[Observed]
    /\ adjacent )
  => /\ ret[Observed].kind = "doc"
     /\ ret[Observed].val.id = arg[Observed]
     /\ ret[Observed].val.userOneId = prev.arg[1]
     /\ ret[Observed].val.userTwoId = prev.arg[2]
     /\ "dateCreated" \in DOMAIN ret[Observed].val
     /\ ret[Observed].val.dateCreated \in Nat

\* C3: addOne(u1, u2) inserts exactly one new record with a fresh id, and a findOne on
\* that id issued right after returns a record with userOneId u1, userTwoId u2 and a
\* dateCreated that is not null.
C3_AddOneThenFindOne == [][C3_SaveInsertsOne]_vars /\ []C3_FindOneAfterAddOne

\* addOne followed at once by findOne on the new id, while another record is stored.
C3_Witness ==
  /\ Followed("addOne", "findOne")
  /\ prev.kind = "doc"
  /\ prev.aux.a = arg[Observed]
  /\ adjacent
  /\ ret[Observed].kind = "doc"
  /\ quiet[Observed]
  /\ Cardinality(store) = 2

\* C4: when the observed caller's deleteOne(id) is followed by its findOne(id), with no
\* other caller's change of the store landing between the delete and the find, the find
\* returns null, whether or not a record with that id was stored.
C4_DeleteOneThenFindOneNull ==
  ( /\ Followed("deleteOne", "findOne")
    /\ prev.kind = "boolean"
    /\ prev.arg = arg[Observed]
    /\ adjacent )
  => (ret[Observed].kind = "null" /\ ret[Observed].val = Null)

\* Such a pair of calls, in which the delete removed the record.
C4_Witness ==
  /\ Followed("deleteOne", "findOne")
  /\ prev.kind = "boolean"
  /\ prev.arg = arg[Observed]
  /\ adjacent
  /\ prev.aux.a = 1
  /\ ret[Observed].kind = "null"

\* C5: findAll() returns every stored record (as long as no other caller has changed
\* the store since), the later dateCreated first.
C5_FindAllDescendingByDateCreated ==
  \A p \in Procs :
    (pc[p] = "done" /\ op[p] = "findAll") =>
      /\ ret[p].kind = "array"
      /\ quiet[p] => Elements(ret[p].val) = store
      /\ \A i, j \in DOMAIN ret[p].val :
           i < j => ret[p].val[i].dateCreated >= ret[p].val[j].dateCreated

\* C6: deleteOne(id) returns true for every id, a record deleted or not: the store's
\* acknowledgment is never null.
C6_DeleteOneAlwaysTrue ==
  \A p \in Procs :
    (pc[p] = "done" /\ op[p] = "deleteOne") =>
      (ret[p].kind = "boolean" /\ ret[p].val = TRUE)

\* A deleteOne that deleted nothing and returned true.
C6_Witness ==
  \E p \in Procs :
    /\ pc[p] = "done" /\ op[p] = "deleteOne"
    /\ ret[p].aux.a = 0
    /\ ret[p].val = TRUE

\* A call with a username that resolves to no user settles by throwing.
C7_UnresolvedThrows ==
  \A p \in Procs :
    ( /\ pc[p] = "done"
      /\ op[p] \in {"findAllFriendshipsOfUser", "deleteAllFriendshipOfUser"}
      /\ ~Resolves(arg[p]) )
    => ret[p].kind = "throw"

\* No step of a deleteAllFriendshipOfUser call with such a username changes the store.
C7_UnresolvedDeletesNothing ==
  \A p \in Procs :
    ( /\ op'[p] = "deleteAllFriendshipOfUser"
      /\ ~Resolves(arg'[p])
      /\ pc'[p] # pc[p] )
    => store' = store

\* C7: with a username that resolves to no user, findAllFriendshipsOfUser and
\* deleteAllFriendshipOfUser each end in a failure that reaches the caller, and
\* deleteAllFriendshipOfUser leaves the store as it was.
C7_UnresolvedUsernameFails == []C7_UnresolvedThrows /\ [][C7_UnresolvedDeletesNothing]_vars

\* deleteAllFriendshipOfUser("ghost") has thrown while the store holds records.
C7_Witness ==
  \E p \in Procs :
    /\ pc[p] = "done"
    /\ op[p] = "deleteAllFriendshipOfUser"
    /\ ~Resolves(arg[p])
    /\ ret[p].kind = "throw"
    /\ store # {}

\* Every addOne that settles returns its document.
C8_AddOneSucceeds ==
  \A p \in Procs : (pc[p] = "done" /\ op[p] = "addOne") => ret[p].kind = "doc"

\* The step an addOne takes at its save is the insert, whatever the store holds: the
\* records stored stay, and the new one joins them.
C8_SaveInsertsBesideSamePair ==
  \A p \in Procs :
    (pc[p] = "add_save" /\ pc'[p] # pc[p] /\ pc'[p] # "crashed") =>
      /\ pc'[p] = "add_populate"
      /\ loc[p] \notin store
      /\ store' = store \cup {loc[p]}

\* C8: addOne never rejects a pair that is already befriended: every addOne succeeds
\* and its save adds a record beside the ones stored, the same pair's included.
C8_AddOneNeverRejects == []C8_AddOneSucceeds /\ [][C8_SaveInsertsBesideSamePair]_vars

\* Two addOne calls in flight at once, for the same pair in opposite party order, both
\* saved: two distinct records of one unordered pair.
C8_Witness ==
  \E p, q \in Procs :
    /\ p # q
    /\ pc[p] = "add_populate" /\ pc[q] = "add_populate"
    /\ loc[p].userOneId = loc[q].userTwoId
    /\ loc[p].userTwoId = loc[q].userOneId
    /\ loc[p].userOneId # loc[p].userTwoId
    /\ loc[p] \in store /\ loc[q] \in store
    /\ loc[p].id # loc[q].id

\* The first delete removes the records with userOneId = u and no other; a crash
\* changes nothing in the store.
C9_FirstDeleteOnlyUserOne ==
  /\ \A p \in Procs :
       (pc[p] = "deleteAll_one" /\ pc'[p] = "deleteAll_two") =>
         store' = {r \in store : r.userOneId # loc[p].id}
  /\ (\E p \in Procs : pc[p] # "crashed" /\ pc'[p] = "crashed") => store' = store

\* Between the two deletes, and after a crash there, no record with userOneId = u is
\* stored unless another caller changed the store meanwhile.
C9_BetweenDeletes ==
  \A p \in Procs :
    ( /\ \/ pc[p] = "deleteAll_two"
         \/ pc[p] = "crashed" /\ ret[p].val = "deleteAll_two"
      /\ quiet[p] )
    => \A r \in store : r.userOneId # UserIdOf(arg[p])

\* C9: deleteAllFriendshipOfUser(u) deletes in two store steps, the records with
\* userOneId = u first: between the steps those are gone while the records with
\* userTwoId = u are still stored, and a crash there leaves that partial deletion.
C9_TwoStepDelete == [][C9_FirstDeleteOnlyUserOne]_vars /\ []C9_BetweenDeletes

\* A crash between the two deletes: the first delete removed something, and a record
\* with userTwoId = u is still stored.
C9_Witness ==
  \E p \in Procs :
    /\ pc[p] = "crashed"
    /\ op[p] = "deleteAllFriendshipOfUser"
    /\ ret[p].val = "deleteAll_two"
    /\ ret[p].aux.a >= 1
    /\ quiet[p]
    /\ \E r \in store : r.userTwoId = UserIdOf(arg[p])
    /\ \A r \in store : r.userOneId # UserIdOf(arg[p])

\* The second delete removes the records with userTwoId = u and no other: a record
\* (u, v), v # u, stored by then stays, a record (v, u) goes.
C10_SecondDeleteOnlyUserTwo ==
  \A p \in Procs :
    (pc[p] = "deleteAll_two" /\ pc'[p] = "done") =>
      store' = {r \in store : r.userTwoId # loc[p].id}

\* What a find right after a completed deleteAllFriendshipOfUser(u) returns are records
\* with userOneId = u and userTwoId # u.
C10_SurvivorsAreUserOne ==
  ( /\ Followed("deleteAllFriendshipOfUser", "findAllFriendshipsOfUser")
    /\ prev.kind = "void"
    /\ prev.arg = arg[Observed]
    /\ adjacent )
  => \A r \in Elements(ret[Observed].val) :
       r.userOneId = UserIdOf(arg[Observed]) /\ r.userTwoId # UserIdOf(arg[Observed])

\* C10: deleteAllFriendshipOfUser(u) is not atomic with respect to a concurrent addOne:
\* a record (u, v) inserted after the first delete survives the second, so that a find
\* right after the completed delete returns it, while a record (v, u) inserted between
\* the two deletes is deleted by the second.
C10_DeleteAllNotAtomic == [][C10_SecondDeleteOnlyUserTwo]_vars /\ []C10_SurvivorsAreUserOne

\* deleteAllFriendshipOfUser(u) completed with another caller's insert landing between
\* its deletes, its second delete removed a record, and the find right after it is
\* not empty.
C10_Witness ==
  /\ Followed("deleteAllFriendshipOfUser", "findAllFriendshipsOfUser")
  /\ prev.kind = "void"
  /\ prev.arg = arg[Observed]
  /\ adjacent
  /\ ~prev.atomic
  /\ prev.aux.b >= 1
  /\ ret[Observed].val # <<>>

====
